---- MODULE Spec2Model ----
(***************************************************************************)
(* RLP-0 minimum viable kernel: RelationalState (semantic.py), Gate        *)
(* (gates.py), SignalBus (signals.py) and the RLP0 kernel (core.py).       *)
(*                                                                         *)
(* Numbers.  A primitive (trust, intent, narrative, commitments) is an     *)
(* integer standing for the float of the same value, so the primitives in  *)
(* range are 0.0 and 1.0.  A risk is counted in quarters: the integer q    *)
(* stands for q/4, which is how the division by 4 of the risk formula is   *)
(* kept exact; the threshold is in quarters as well.  The values modelled  *)
(* are exact in binary floating point, so no rounding is lost.             *)
(*                                                                         *)
(* Objects.  RelationalState is a mutable dataclass handled by reference:  *)
(* heap maps the addresses of the live instances to their fields, _state   *)
(* is the kernel's reference and caller holds the references the calling   *)
(* code keeps.                                                             *)
(***************************************************************************)
EXTENDS Integers, Sequences, FiniteSets, TLC

VARIABLES
    heap,               \* address -> fields of a live RelationalState
    _state,             \* RLP0._state: address of the kernel's state
    _gate,              \* RLP0._gate: the Gate's fields
    _signal_bus,        \* RLP0._signal_bus: the SignalBus's fields
    _rupture_threshold, \* RLP0._rupture_threshold
    caller,             \* references to RelationalState held by the caller
    result,             \* outcome of the last call: the exception raised or
                        \* the value returned, and the callbacks it called
    now                 \* the clock read by datetime.now

vars == <<heap, _state, _gate, _signal_bus, _rupture_threshold,
          caller, result, now>>

---------------------------------------------------------------------------
(* Bounds of the model *)

\* the clock runs from 0 to MaxTime
MaxTime == 1

\* at most MaxSignals signals are emitted
MaxSignals == 2

\* at most MaxGateEvents events are appended to the gate history
MaxGateEvents == 3

\* at most MaxSubs subscriptions at a time
MaxSubs == 2

---------------------------------------------------------------------------
(* Values *)

Primitives == {"trust", "intent", "narrative", "commitments"}

\* 1.0 as a primitive; the divisor of the risk formula, which is 1.0 as a
\* risk in quarters
One == 1
RiskOne == 4

\* values a caller passes for a primitive: below 0.0, the range, above 1.0
InputVals == (-1) .. (One + 1)

\* the threshold a kernel is constructed with: 0.5, in quarters
Thresholds == {2}

\* rupture_risk values a caller constructs a RelationalState with:
\* the default 0.0, 1.0, and a value above 1.0
InitRisks == {0, RiskOne + 1}

\* addresses of RelationalState instances; 0 is no reference
Addr == 1 .. 3
NoRef == 0

\* the callbacks a caller subscribes: one that takes the signal and
\* returns, one that raises
Callbacks == {"h1", "bad"}
Raises(cb) == cb = "bad"

---------------------------------------------------------------------------
(* semantic.py: RelationalState *)

\* a validation that takes the range without its bounds
RelationalState_post_init_strict(f) ==
    \A p \in Primitives : 0 < f[p] /\ f[p] < One

\* __post_init__: every primitive within [0.0, 1.0]
RelationalState_post_init(f) ==
    \A p \in Primitives : 0 <= f[p] /\ f[p] <= One

\* the dataclass's constructor: the fields given, last_updated from the
\* default factory; ok says whether __post_init__ returned
RelationalState(trust, intent, narrative, commitments, rupture_risk, is_gated, t) ==
    LET f == [trust |-> trust, intent |-> intent, narrative |-> narrative,
              commitments |-> commitments, rupture_risk |-> rupture_risk,
              last_updated |-> t, is_gated |-> is_gated]
    IN  [ok |-> RelationalState_post_init(f), fields |-> f]

\* kwargs.get(p, self.p)
KwGet(kwargs, p, default) ==
    IF p \in DOMAIN kwargs THEN kwargs[p] ELSE default

\* the least free address
Alloc(h) == CHOOSE a \in Addr \ DOMAIN h : \A b \in Addr \ DOMAIN h : a <= b

\* h with the instance at address a set to fields f
Store(h, a, f) == [b \in DOMAIN h \cup {a} |-> IF b = a THEN f ELSE h[b]]

\* an update that writes the values to self and returns self
RelationalState_update_in_place(h, self, kwargs, t) ==
    LET s == h[self]
        new == RelationalState(KwGet(kwargs, "trust", s.trust),
                               KwGet(kwargs, "intent", s.intent),
                               KwGet(kwargs, "narrative", s.narrative),
                               KwGet(kwargs, "commitments", s.commitments),
                               s.rupture_risk, s.is_gated, t)
    IN  IF new.ok
        THEN [exc |-> "", heap |-> [h EXCEPT ![self] = new.fields], ret |-> self]
        ELSE [exc |-> "ValueError", heap |-> h, ret |-> NoRef]

\* an update that, when a value is out of range, has already written the
\* values in range to self
RelationalState_update_applying(h, self, kwargs, t) ==
    LET s == h[self]
        new == RelationalState(KwGet(kwargs, "trust", s.trust),
                               KwGet(kwargs, "intent", s.intent),
                               KwGet(kwargs, "narrative", s.narrative),
                               KwGet(kwargs, "commitments", s.commitments),
                               s.rupture_risk, s.is_gated, t)
        a == Alloc(h)
        applied == [f \in DOMAIN s |->
                       IF f \in DOMAIN kwargs /\ 0 <= kwargs[f] /\ kwargs[f] <= One
                       THEN kwargs[f] ELSE s[f]]
    IN  IF new.ok
        THEN [exc |-> "", heap |-> Store(h, a, new.fields), ret |-> a]
        ELSE [exc |-> "ValueError", heap |-> [h EXCEPT ![self] = applied],
              ret |-> NoRef]

\* update(**kwargs) on the instance at self: a new instance, or ValueError.
\* The result is the heap after the call and the address returned.
RelationalState_update(h, self, kwargs, t) ==
    LET s == h[self]
        new == RelationalState(KwGet(kwargs, "trust", s.trust),
                               KwGet(kwargs, "intent", s.intent),
                               KwGet(kwargs, "narrative", s.narrative),
                               KwGet(kwargs, "commitments", s.commitments),
                               s.rupture_risk, s.is_gated, t)
        a == Alloc(h)
    IN  IF new.ok
        THEN [exc |-> "", heap |-> Store(h, a, new.fields), ret |-> a]
        ELSE [exc |-> "ValueError", heap |-> h, ret |-> NoRef]

---------------------------------------------------------------------------
(* gates.py: Gate.  An Optional value is <<>> for None; a reason is the  *)
(* tuple of the parts of its text.                                         *)

Gate == [state |-> "OPEN", closed_at |-> <<>>, reason |-> <<>>, history |-> <<>>]

Gate_is_open(g) == g.state = "OPEN"
Gate_is_closed(g) == g.state = "CLOSED"

GateEvent(action, timestamp, reason, rupture_risk_at_event) ==
    [action |-> action, timestamp |-> timestamp, reason |-> reason,
     rupture_risk_at_event |-> rupture_risk_at_event]

\* a close that closes again a gate that is closed
Gate_close_again(g, reason, rupture_risk, t) ==
    [state |-> "CLOSED", closed_at |-> <<t>>, reason |-> reason,
     history |-> Append(g.history,
                        GateEvent("closed", t, reason, rupture_risk))]

Gate_close(g, reason, rupture_risk, t) ==
    IF Gate_is_closed(g)
    THEN g
    ELSE [state |-> "CLOSED", closed_at |-> <<t>>, reason |-> reason,
          history |-> Append(g.history,
                             GateEvent("closed", t, reason, rupture_risk))]

\* a release that opens the gate and appends no event
Gate_release_unrecorded(g, rupture_risk, t) ==
    [g EXCEPT !.state = "OPEN", !.closed_at = <<>>, !.reason = <<>>]

\* a release that writes its event over the 'closed' event
Gate_release_rewriting(g, rupture_risk, t) ==
    IF Gate_is_open(g)
    THEN g
    ELSE [state |-> "OPEN", closed_at |-> <<>>, reason |-> <<>>,
          history |-> [g.history EXCEPT ![Len(g.history)] =
                          GateEvent("released", t, <<"repair_acknowledged">>,
                                    rupture_risk)]]

Gate_release(g, rupture_risk, t) ==
    IF Gate_is_open(g)
    THEN g
    ELSE [state |-> "OPEN", closed_at |-> <<>>, reason |-> <<>>,
          history |-> Append(g.history,
                             GateEvent("released", t, <<"repair_acknowledged">>,
                                       rupture_risk))]

Gate_check(g) == Gate_is_open(g)

---------------------------------------------------------------------------
(* signals.py: Signal, SignalBus *)

Signal(signal_type, timestamp, rupture_risk, context) ==
    [signal_type |-> signal_type, timestamp |-> timestamp,
     rupture_risk |-> rupture_risk, context |-> context]

SignalBus == [_subscribers |-> <<>>, _history |-> <<>>]

SignalBus_subscribe(bus, callback) ==
    [bus EXCEPT !._subscribers = Append(@, callback)]

\* list.remove: the first entry equal to callback goes
RemoveFirst(seq, x) ==
    LET i == CHOOSE j \in 1 .. Len(seq) :
                 seq[j] = x /\ \A m \in 1 .. (j - 1) : seq[m] # x
    IN  SubSeq(seq, 1, i - 1) \o SubSeq(seq, i + 1, Len(seq))

SignalBus_unsubscribe(bus, callback) ==
    IF \E j \in 1 .. Len(bus._subscribers) : bus._subscribers[j] = callback
    THEN [bus EXCEPT !._subscribers = RemoveFirst(@, callback)]
    ELSE bus

\* a loop that goes on after a callback that raises
Called_every(subs) == subs

\* the subscriptions the loop of emit calls: all of them, or those up to
\* and including the first whose callback raises
Called(subs) ==
    LET bad == {j \in 1 .. Len(subs) : Raises(subs[j])}
    IN  IF bad = {}
        THEN subs
        ELSE SubSeq(subs, 1, CHOOSE j \in bad : \A m \in bad : j <= m)

\* an emit that calls the subscribers first and appends the signal after
SignalBus_emit_notify_first(bus, signal) ==
    LET called == Called(bus._subscribers)
        hist == Append(bus._history, signal)
    IN  [bus |-> [bus EXCEPT !._history = hist],
         calls |-> [j \in 1 .. Len(called) |->
                        [callback |-> called[j], signal |-> signal,
                         history_len |-> Len(bus._history)]],
         exc |-> IF \E j \in 1 .. Len(called) : Raises(called[j])
                 THEN "CallbackError" ELSE ""]

\* emit: the signal is appended to the history, then the subscribers are
\* called in order; a callback that raises ends the loop and the call.
\* calls lists the callbacks called, each with the signal it was given and
\* the length of the history at that moment.
SignalBus_emit(bus, signal) ==
    LET called == Called(bus._subscribers)
        hist == Append(bus._history, signal)
    IN  [bus |-> [bus EXCEPT !._history = hist],
         calls |-> [j \in 1 .. Len(called) |->
                        [callback |-> called[j], signal |-> signal,
                         history_len |-> Len(hist)]],
         exc |-> IF \E j \in 1 .. Len(called) : Raises(called[j])
                 THEN "CallbackError" ELSE ""]

SignalBus_history(bus) == bus._history

---------------------------------------------------------------------------
(* core.py: RLP0.  A kernel k is the record of the objects it owns; an     *)
(* operation gives the kernel after the call, the exception raised ("" for *)
(* none), the value returned (<<>> for None) and the callbacks called.     *)

\* f"{risk:.2f}": the risk in hundredths, rounded half to even
Fmt2(risk) ==
    LET n == risk * 100
        d == RiskOne
        q == n \div d
        r == n % d
    IN  IF 2 * r > d \/ (2 * r = d /\ q % 2 = 1) THEN q + 1 ELSE q

\* an is_gated that reads the flag of the state, not the gate
RLP0_is_gated_flag(k) == k.heap[k._state].is_gated

RLP0_is_gated(k) == Gate_is_closed(k._gate)

RLP0_emit_rupture_detected(k, risk, t) ==
    LET e == SignalBus_emit(k._signal_bus,
                            Signal("RUPTURE_DETECTED", t, risk,
                                   <<"exceeded", Fmt2(risk), k._rupture_threshold>>))
    IN  [k |-> [k EXCEPT !._signal_bus = e.bus], exc |-> e.exc, calls |-> e.calls]

\* a risk that leaves commitments out
RuptureRisk_three(s) ==
    (One - s.trust) + (One - s.intent) + (One - s.narrative)

\* risk = ((1 - trust) + (1 - intent) + (1 - narrative) + (1 - commitments)) / 4
RuptureRisk(s) ==
    (One - s.trust) + (One - s.intent) + (One - s.narrative) + (One - s.commitments)

\* a threshold check that does not look at the gate
ShouldRupture_any_gate(k, risk) ==
    risk >= k._rupture_threshold

\* the threshold check
ShouldRupture(k, risk) ==
    risk >= k._rupture_threshold /\ Gate_is_open(k._gate)

\* the branch of compute_rupture_risk taken on a rupture: emit, then close
\* the gate, then set the flag of the state; an exception out of emit ends
\* the call where it is
Rupture(k, risk, t) ==
    LET e == RLP0_emit_rupture_detected(k, risk, t)
        g == Gate_close(e.k._gate,
                        <<"rupture_risk", Fmt2(risk), k._rupture_threshold>>,
                        risk, t)
    IN  IF e.exc # ""
        THEN [k |-> e.k, exc |-> e.exc, ret |-> <<>>, calls |-> e.calls]
        ELSE [k |-> [e.k EXCEPT !._gate = g,
                                !.heap[k._state].is_gated = TRUE],
              exc |-> "", ret |-> <<risk>>, calls |-> e.calls]

\* the risk written to the state in place, with the time of the computation
WriteRisk(k, risk, t) ==
    [k EXCEPT !.heap[k._state].rupture_risk = risk,
              !.heap[k._state].last_updated = t]

\* a compute_rupture_risk that opens a closed gate when the risk is back
\* below the threshold
RLP0_compute_rupture_risk_releasing(k, t) ==
    LET risk == RuptureRisk(k.heap[k._state])
        k1 == WriteRisk(k, risk, t)
    IN  IF ShouldRupture(k, risk)
        THEN Rupture(k1, risk, t)
        ELSE IF risk < k._rupture_threshold /\ Gate_is_closed(k._gate)
        THEN [k |-> [k1 EXCEPT !._gate = Gate_release(@, risk, t),
                               !.heap[k._state].is_gated = FALSE],
              exc |-> "", ret |-> <<risk>>, calls |-> <<>>]
        ELSE [k |-> k1, exc |-> "", ret |-> <<risk>>, calls |-> <<>>]

RLP0_compute_rupture_risk(k, t) ==
    LET risk == RuptureRisk(k.heap[k._state])
        k1 == WriteRisk(k, risk, t)
    IN  IF ShouldRupture(k, risk)
        THEN Rupture(k1, risk, t)
        ELSE [k |-> k1, exc |-> "", ret |-> <<risk>>, calls |-> <<>>]

\* an acknowledge_repair that opens the gate only when the recomputed risk
\* is below the threshold
RLP0_acknowledge_repair_below_threshold(k, t) ==
    IF ~ RLP0_is_gated(k)
    THEN [k |-> k, exc |-> "", ret |-> <<FALSE>>, calls |-> <<>>]
    ELSE LET c == RLP0_compute_rupture_risk(k, t)
             g == Gate_release(c.k._gate, c.k.heap[c.k._state].rupture_risk, t)
         IN  IF c.k.heap[c.k._state].rupture_risk >= k._rupture_threshold
             THEN [c EXCEPT !.ret = <<FALSE>>]
             ELSE [k |-> [c.k EXCEPT !._gate = g,
                                     !.heap[c.k._state].is_gated = FALSE],
                   exc |-> "", ret |-> <<TRUE>>, calls |-> c.calls]

RLP0_acknowledge_repair(k, t) ==
    IF ~ RLP0_is_gated(k)
    THEN [k |-> k, exc |-> "", ret |-> <<FALSE>>, calls |-> <<>>]
    ELSE LET c == RLP0_compute_rupture_risk(k, t)
             g == Gate_release(c.k._gate, c.k.heap[c.k._state].rupture_risk, t)
         IN  IF c.exc # ""
             THEN [c EXCEPT !.ret = <<>>]
             ELSE [k |-> [c.k EXCEPT !._gate = g,
                                     !.heap[c.k._state].is_gated = FALSE],
                   exc |-> "", ret |-> <<TRUE>>, calls |-> c.calls]

\* kwargs holds the parameters that are not None
RLP0_update_state(k, kwargs, t) ==
    LET u == RelationalState_update(k.heap, k._state, kwargs, t)
        k1 == IF DOMAIN kwargs # {}
              THEN [k EXCEPT !.heap = u.heap, !._state = u.ret]
              ELSE k
        c == RLP0_compute_rupture_risk(k1, t)
    IN  IF DOMAIN kwargs # {} /\ u.exc # ""
        THEN [k |-> [k EXCEPT !.heap = u.heap],
              exc |-> u.exc, ret |-> <<>>, calls |-> <<>>]
        ELSE [c EXCEPT !.ret = <<>>]

RLP0_check_gate(k) == Gate_check(k._gate)

\* datetime.isoformat: the text of a time
IsoFormat(t) == <<"isoformat", t>>

\* as_dict: the fields by name, last_updated as text
RelationalState_as_dict(s) == [s EXCEPT !.last_updated = IsoFormat(@)]

\* the dict status makes of a gate event
GateEventDict(e) ==
    [action |-> e.action, timestamp |-> IsoFormat(e.timestamp),
     reason |-> e.reason, rupture_risk |-> e.rupture_risk_at_event]

\* a list handed out that is the kernel's own list object
FreshList_same(items) == [items |-> items, shared |-> TRUE]

\* A list handed to the caller, by list.copy() or by a list comprehension:
\* a new list object with the given entries.  shared says whether the
\* list object is the one the kernel keeps.
FreshList(items) == [items |-> items, shared |-> FALSE]

\* signal_history: self._signal_bus.history, which is a copy of the list
RLP0_signal_history(k) == FreshList(SignalBus_history(k._signal_bus))

RLP0_status(k) ==
    [state |-> RelationalState_as_dict(k.heap[k._state]),
     is_gated |-> RLP0_is_gated(k),
     rupture_threshold |-> k._rupture_threshold,
     signal_count |-> Len(SignalBus_history(k._signal_bus)),
     gate_history |-> FreshList([j \in 1 .. Len(k._gate.history) |->
                                    GateEventDict(k._gate.history[j])])]

---------------------------------------------------------------------------
(* The kernel as the state of the model *)

Kernel ==
    [heap |-> heap, _state |-> _state, _gate |-> _gate,
     _signal_bus |-> _signal_bus, _rupture_threshold |-> _rupture_threshold]

\* Addresses are names only.  After a call the live instances are those a
\* reference reaches, and they are renamed 1, 2, ... in the order of the
\* references <<_state, caller.s1, caller.s2>>.
Refs(k, c) == <<k._state, c.s1, c.s2>>

\* the new names of refs[1], refs[2], refs[3]
Renamed(refs) ==
    LET n1 == IF refs[1] = NoRef THEN NoRef ELSE 1
        n2 == IF refs[2] = NoRef THEN NoRef
              ELSE IF refs[2] = refs[1] THEN n1
              ELSE n1 + 1
        top == IF n2 > n1 THEN n2 ELSE n1
        n3 == IF refs[3] = NoRef THEN NoRef
              ELSE IF refs[3] = refs[1] THEN n1
              ELSE IF refs[3] = refs[2] THEN n2
              ELSE top + 1
    IN  <<n1, n2, n3>>

Compact(h, refs) ==
    LET new == Renamed(refs)
    IN  [n \in {new[j] : j \in 1 .. 3} \ {NoRef} |->
            h[refs[CHOOSE j \in 1 .. 3 : new[j] = n]]]

WithinBounds(k) ==
    /\ Len(k._signal_bus._history) <= MaxSignals
    /\ Len(k._gate.history) <= MaxGateEvents
    /\ Len(k._signal_bus._subscribers) <= MaxSubs

Outcome(op, r) == [op |-> op, exc |-> r.exc, ret |-> r.ret, calls |-> r.calls]

Returns(ret) == [exc |-> "", ret |-> ret, calls |-> <<>>]

\* the variables after a call that leaves the kernel k, the caller's
\* references c and the outcome r
Becomes(k, c, r) ==
    LET refs == Refs(k, c)
        new == Renamed(refs)
    IN  /\ WithinBounds(k)
        /\ heap' = Compact(k.heap, refs)
        /\ _state' = new[1]
        /\ caller' = [c EXCEPT !.s1 = new[2], !.s2 = new[3]]
        /\ _gate' = k._gate
        /\ _signal_bus' = k._signal_bus
        /\ result' = r
        /\ UNCHANGED <<_rupture_threshold, now>>

---------------------------------------------------------------------------
(* Construction: RLP0(rupture_threshold, state) *)

\* the states a caller passes as the initial state: the default state, and
\* the valid states with equal primitives and any rupture_risk and is_gated
InitialStates ==
    {s \in {RelationalState(v, v, v, v, r, g, 0) :
                v \in InputVals, r \in InitRisks, g \in BOOLEAN} : s.ok}

RLP0(rupture_threshold, state) ==
    [heap |-> Store(<<>>, 1, state), _state |-> 1, _gate |-> Gate,
     _signal_bus |-> SignalBus, _rupture_threshold |-> rupture_threshold]

Init ==
    /\ \E th \in Thresholds : \E s \in InitialStates :
           /\ heap = RLP0(th, s.fields).heap
           /\ _state = RLP0(th, s.fields)._state
           /\ _gate = RLP0(th, s.fields)._gate
           /\ _signal_bus = RLP0(th, s.fields)._signal_bus
           /\ _rupture_threshold = RLP0(th, s.fields)._rupture_threshold
    /\ caller = [s1 |-> NoRef, s2 |-> NoRef]
    /\ result = Outcome("RLP0", Returns(<<>>))
    /\ now = 0

---------------------------------------------------------------------------
(* The calls of the caller *)

\* update_state with the parameters in kwargs, the others None
UpdateStateWith(kwargs) ==
    LET r == RLP0_update_state(Kernel, kwargs, now)
    IN  Becomes(r.k, caller, Outcome("update_state", r))

\* the parameters given in one call: none, trust and intent, all four
ParameterSets == {{}, {"trust", "intent"}, Primitives}

\* the parameters in S all set to v
UpdateState ==
    \E S \in ParameterSets : \E v \in InputVals :
        UpdateStateWith([p \in S |-> v])

\* trust and intent, or all four parameters, each with any value
UpdateStateAny ==
    \E S \in {{"trust", "intent"}, Primitives} : \E kwargs \in [S -> InputVals] :
        UpdateStateWith(kwargs)

ComputeRuptureRisk ==
    LET r == RLP0_compute_rupture_risk(Kernel, now)
    IN  Becomes(r.k, caller, Outcome("compute_rupture_risk", r))

AcknowledgeRepair ==
    LET r == RLP0_acknowledge_repair(Kernel, now)
    IN  Becomes(r.k, caller, Outcome("acknowledge_repair", r))

CheckGate ==
    Becomes(Kernel, caller,
            Outcome("check_gate", Returns(<<RLP0_check_gate(Kernel)>>)))

Status ==
    Becomes(Kernel, caller, Outcome("status", Returns(<<RLP0_status(Kernel)>>)))

Subscribe ==
    \E cb \in Callbacks :
        Becomes([Kernel EXCEPT !._signal_bus = SignalBus_subscribe(@, cb)],
                caller, Outcome("subscribe", Returns(<<>>)))

Unsubscribe ==
    \E cb \in Callbacks :
        Becomes([Kernel EXCEPT !._signal_bus = SignalBus_unsubscribe(@, cb)],
                caller, Outcome("unsubscribe", Returns(<<>>)))

\* time passes between two calls
Tick ==
    /\ now < MaxTime
    /\ now' = now + 1
    /\ UNCHANGED <<heap, _state, _gate, _signal_bus, _rupture_threshold,
                   caller, result>>

---------------------------------------------------------------------------
(* Spec: the kernel driven through its API, with subscribers *)

Next ==
    \/ UpdateState
    \/ ComputeRuptureRisk
    \/ AcknowledgeRepair
    \/ CheckGate
    \/ Status
    \/ Subscribe
    \/ Unsubscribe

Spec == Init /\ [][Next]_vars

(* SpecAny: the kernel with the parameters of update_state given any values *)

NextAny ==
    \/ UpdateStateAny
    \/ ComputeRuptureRisk
    \/ AcknowledgeRepair

SpecAny == Init /\ [][NextAny]_vars

(* SpecClock: the kernel with the clock advancing between the calls *)

NextClock ==
    \/ UpdateState
    \/ ComputeRuptureRisk
    \/ AcknowledgeRepair
    \/ Tick

SpecClock == Init /\ [][NextClock]_vars

---------------------------------------------------------------------------
(* SpecState: RelationalState on its own.  The caller constructs an        *)
(* instance s1, calls s2 = s1.update(...) and may go on from s2.           *)

NoKernel ==
    /\ _state = NoRef
    /\ _gate = Gate
    /\ _signal_bus = SignalBus
    /\ _rupture_threshold = 0
    /\ now = 0

\* s1 = RelationalState(trust, intent, narrative, commitments, rupture_risk, is_gated)
InitState ==
    /\ NoKernel
    /\ \E a \in InputVals, b \in InputVals, c \in InputVals, d \in InputVals,
          r \in InitRisks, g \in BOOLEAN :
           LET s == RelationalState(a, b, c, d, r, g, now)
           IN  /\ heap = IF s.ok THEN Store(<<>>, 1, s.fields) ELSE <<>>
               /\ caller = [s1 |-> IF s.ok THEN 1 ELSE NoRef, s2 |-> NoRef]
               /\ result = [op |-> "RelationalState",
                            exc |-> IF s.ok THEN "" ELSE "ValueError",
                            ret |-> <<a, b, c, d>>, calls |-> <<>>]

\* s2 = s1.update(**kwargs); result.ret keeps the arguments of the call
StateUpdate ==
    /\ caller.s1 # NoRef
    /\ result.op \in {"RelationalState", "keep"}
    /\ \E S \in SUBSET Primitives : \E kwargs \in [S -> InputVals] :
           LET u == RelationalState_update(heap, caller.s1, kwargs, now)
               refs == <<NoRef, caller.s1, u.ret>>
           IN  /\ heap' = Compact(u.heap, refs)
               /\ caller' = [s1 |-> Renamed(refs)[2], s2 |-> Renamed(refs)[3]]
               /\ result' = [op |-> "update", exc |-> u.exc,
                             ret |-> <<kwargs>>, calls |-> <<>>]
    /\ UNCHANGED <<_state, _gate, _signal_bus, _rupture_threshold, now>>

\* the caller goes on with s1 (keep = 2: s1 = s2) or with s1 as it is
StateKeep ==
    /\ result.op = "update"
    /\ \E keep \in {1, 2} :
           LET refs == <<NoRef,
                         IF keep = 2 /\ caller.s2 # NoRef
                         THEN caller.s2 ELSE caller.s1,
                         NoRef>>
           IN  /\ heap' = Compact(heap, refs)
               /\ caller' = [s1 |-> Renamed(refs)[2], s2 |-> NoRef]
    /\ result' = [op |-> "keep", exc |-> "", ret |-> <<>>, calls |-> <<>>]
    /\ UNCHANGED <<_state, _gate, _signal_bus, _rupture_threshold, now>>

NextState ==
    \/ StateUpdate
    \/ StateKeep

SpecState == InitState /\ [][NextState]_vars

---------------------------------------------------------------------------
(* Properties of rupture detection and of the gate, under Spec *)

\* the risk of the claims: ((1-t) + (1-i) + (1-n) + (1-c)) / 4, in quarters
RiskOf(s) == RiskOne - (s.trust + s.intent + s.narrative + s.commitments)

\* the call of this step is one that computes the risk:
\* compute_rupture_risk, or update_state past its validation
ComputesRisk ==
    \/ result'.op = "compute_rupture_risk"
    \/ result'.op = "update_state" /\ result'.exc # "ValueError"

\* s extends the sequence old by exactly one entry
ExtendsByOne(s, old) ==
    Len(s) = Len(old) + 1 /\ SubSeq(s, 1, Len(old)) = old

Last(s) == s[Len(s)]

\* C1: a call that computes a risk at or above the threshold while the gate
\* is open appends exactly one RUPTURE_DETECTED signal carrying that risk,
\* calls every subscription once with it, closes the gate (check_gate
\* false), appends exactly one 'closed' gate event carrying that risk and
\* sets state.is_gated; a risk below the threshold with the gate open emits
\* nothing and leaves the gate open.
C1_RuptureClosesGate ==
    [][(ComputesRisk /\ Gate_is_open(_gate)) =>
         LET risk == heap'[_state'].rupture_risk
             subs == _signal_bus._subscribers
         IN  IF risk >= _rupture_threshold
             THEN /\ ExtendsByOne(_signal_bus'._history, _signal_bus._history)
                  /\ Last(_signal_bus'._history).signal_type = "RUPTURE_DETECTED"
                  /\ Last(_signal_bus'._history).rupture_risk = risk
                  /\ Len(result'.calls) = Len(subs)
                  /\ \A j \in 1 .. Len(subs) :
                         /\ result'.calls[j].callback = subs[j]
                         /\ result'.calls[j].signal = Last(_signal_bus'._history)
                  /\ Gate_is_closed(_gate')
                  /\ ~ RLP0_check_gate(Kernel')
                  /\ ExtendsByOne(_gate'.history, _gate.history)
                  /\ Last(_gate'.history).action = "closed"
                  /\ Last(_gate'.history).rupture_risk_at_event = risk
                  /\ heap'[_state'].is_gated
             ELSE /\ _signal_bus'._history = _signal_bus._history
                  /\ result'.calls = <<>>
                  /\ _gate' = _gate
                  /\ Gate_is_open(_gate')
      ]_vars

\* C2: with the gate closed, compute_rupture_risk and update_state leave the
\* signal history and the gate unchanged and call no subscriber, whatever
\* the risk, and a call that computes the risk still writes it to the state.
C2_ClosedGateEmitsNothing ==
    [][(Gate_is_closed(_gate)
        /\ result'.op \in {"compute_rupture_risk", "update_state"}) =>
         /\ _signal_bus'._history = _signal_bus._history
         /\ _gate' = _gate
         /\ result'.calls = <<>>
         /\ ComputesRisk =>
                /\ result'.exc = ""
                /\ heap'[_state'].rupture_risk = RiskOf(heap'[_state'])
      ]_vars

\* an update_state made while the gate was closed and a callback subscribed
\* wrote a risk at or above the threshold, other than the one that closed
\* the gate, and called nothing
C2_Witness ==
    /\ Gate_is_closed(_gate)
    /\ result.op = "update_state" /\ result.exc = ""
    /\ Len(_signal_bus._subscribers) > 0
    /\ result.calls = <<>>
    /\ heap[_state].rupture_risk >= _rupture_threshold
    /\ heap[_state].rupture_risk # Last(_gate.history).rupture_risk_at_event

\* the calls other than acknowledge_repair
OtherCalls ==
    {"update_state", "compute_rupture_risk", "check_gate", "status",
     "subscribe", "unsubscribe"}

\* C3: a closed gate stays closed through update_state (also one that
\* brings the risk below the threshold), compute_rupture_risk, check_gate,
\* status, subscribe and unsubscribe; the gate changes only from open to
\* closed in a call that computes the risk and from closed to open in
\* acknowledge_repair.
C3_GateTransitions ==
    [][/\ (Gate_is_closed(_gate) /\ result'.op \in OtherCalls) =>
              (_gate' = _gate /\ ~ RLP0_check_gate(Kernel'))
       /\ (Gate_is_closed(_gate) /\ Gate_is_open(_gate')) =>
              result'.op = "acknowledge_repair"
       /\ (Gate_is_open(_gate) /\ Gate_is_closed(_gate')) => ComputesRisk
       /\ _gate' # _gate => Gate_is_open(_gate) # Gate_is_open(_gate')
      ]_vars

\* an update_state brought the risk below the threshold and the gate is
\* still closed
C3_Witness ==
    /\ Gate_is_closed(_gate)
    /\ result.op = "update_state" /\ result.exc = ""
    /\ heap[_state].rupture_risk < _rupture_threshold

\* C4: acknowledge_repair on a closed gate returns true, leaves the four
\* primitives, writes the risk recomputed from them, opens the gate, clears
\* state.is_gated and appends exactly one 'released' event with the reason
\* 'repair_acknowledged' and the recomputed risk, also when that risk is at
\* or above the threshold.
C4_AcknowledgeRepairReleases ==
    [][(Gate_is_closed(_gate) /\ result'.op = "acknowledge_repair") =>
         /\ result'.exc = "" /\ result'.ret = <<TRUE>>
         /\ \A p \in Primitives : heap'[_state'][p] = heap[_state][p]
         /\ heap'[_state'].rupture_risk = RiskOf(heap[_state])
         /\ Gate_is_open(_gate') /\ RLP0_check_gate(Kernel')
         /\ ~ heap'[_state'].is_gated
         /\ ExtendsByOne(_gate'.history, _gate.history)
         /\ Last(_gate'.history).action = "released"
         /\ Last(_gate'.history).reason = <<"repair_acknowledged">>
         /\ Last(_gate'.history).rupture_risk_at_event = RiskOf(heap[_state])
         /\ _signal_bus' = _signal_bus
      ]_vars

\* acknowledge_repair returned true and opened the gate with the risk at or
\* above the threshold
C4_Witness ==
    /\ result.op = "acknowledge_repair" /\ result.ret = <<TRUE>>
    /\ Gate_is_open(_gate)
    /\ Last(_gate.history).action = "released"
    /\ heap[_state].rupture_risk >= _rupture_threshold

\* C5: acknowledge_repair on an open gate returns false and changes nothing:
\* the state with its last_updated, the gate and its history, the signal
\* history and the subscriber list.  The first conjunct is the call made at
\* a later time than any last_updated, the second the call of this step.
C5_AcknowledgeRepairOpenGate ==
    [][Gate_is_open(_gate) =>
         /\ LET r == RLP0_acknowledge_repair(Kernel, now + 1)
            IN  r.exc = "" /\ r.ret = <<FALSE>> /\ r.calls = <<>> /\ r.k = Kernel
         /\ result'.op = "acknowledge_repair" =>
                /\ result'.exc = "" /\ result'.ret = <<FALSE>>
                /\ result'.calls = <<>>
                /\ UNCHANGED <<heap, _state, _gate, _signal_bus,
                               _rupture_threshold, caller, now>>
      ]_vars

\* acknowledge_repair returned false on a kernel with a subscriber, a
\* signal and gate events in its histories
C5_Witness ==
    /\ result.op = "acknowledge_repair" /\ result.ret = <<FALSE>>
    /\ Gate_is_open(_gate)
    /\ Len(_signal_bus._subscribers) > 0
    /\ Len(_signal_bus._history) > 0
    /\ Len(_gate.history) > 0

\* C10: the gate history alternates 'closed', 'released', 'closed', ...,
\* starting with 'closed'; the gate is closed exactly when the history is
\* not empty and its last event is 'closed'; status gives this history.
C10_GateHistoryAlternates ==
    /\ \A j \in 1 .. Len(_gate.history) :
           _gate.history[j].action = IF j % 2 = 1 THEN "closed" ELSE "released"
    /\ Gate_is_closed(_gate) <=>
           (Len(_gate.history) > 0 /\ Last(_gate.history).action = "closed")
    /\ result.op = "status" =>
           LET h == result.ret[1].gate_history.items
           IN  /\ Len(h) = Len(_gate.history)
               /\ \A j \in 1 .. Len(h) : h[j].action = _gate.history[j].action

\* status after one rupture and one acknowledged repair: the gate history
\* is 'closed', 'released'
C10_Witness ==
    /\ result.op = "status"
    /\ Len(_signal_bus._history) = 1
    /\ Len(result.ret[1].gate_history.items) = 2
    /\ result.ret[1].gate_history.items[1].action = "closed"
    /\ result.ret[1].gate_history.items[2].action = "released"

---------------------------------------------------------------------------
(* Properties of the risk and of validation, under SpecAny *)

InRange(v) == 0 <= v /\ v <= One

\* the last call left a computed risk: a successful update_state or
\* compute_rupture_risk, or an acknowledge_repair that returned true
RiskComputed ==
    \/ result.op \in {"update_state", "compute_rupture_risk"} /\ result.exc = ""
    \/ result.op = "acknowledge_repair" /\ result.ret = <<TRUE>>

\* C6: after a successful update_state or compute_rupture_risk, or an
\* acknowledge_repair that returned true, state.rupture_risk is
\* ((1-t) + (1-i) + (1-n) + (1-c)) / 4 of the four current primitives, and
\* compute_rupture_risk returns that value; the risk is 0.0 exactly when all
\* four primitives are 1.0, and raising a primitive never raises the risk.
C6_RiskFormula ==
    RiskComputed =>
        LET s == heap[_state]
        IN  /\ s.rupture_risk = RiskOf(s)
            /\ result.op = "compute_rupture_risk" => result.ret = <<RiskOf(s)>>
            /\ s.rupture_risk = 0 <=> \A p \in Primitives : s[p] = One
            /\ \A p \in Primitives : \A v \in 0 .. One :
                   v >= s[p] =>
                       RLP0_compute_rupture_risk(
                           [Kernel EXCEPT !.heap[_state][p] = v], now).ret[1]
                       <= s.rupture_risk

\* compute_rupture_risk returned 0.25: three primitives at 1.0, one at 0.0
C6_Witness ==
    /\ result.op = "compute_rupture_risk" /\ result.ret = <<1>>
    /\ heap[_state].rupture_risk = 1
    /\ \E p \in Primitives : heap[_state][p] = 0

\* the parameters of an update_state with at least one value out of range
InvalidKwargs ==
    {kw \in UNION {[S -> InputVals] : S \in {{"trust", "intent"}, Primitives}} :
        \E p \in DOMAIN kw : ~ InRange(kw[p])}

\* C8: update_state with at least one value out of range raises ValueError
\* and leaves the kernel as it was: the state with its four primitives,
\* rupture_risk, is_gated and last_updated, the gate and its history and the
\* signal history; nothing is computed or emitted and the values in range
\* of the call are not applied.
C8_InvalidUpdateChangesNothing ==
    \A kw \in InvalidKwargs :
        LET r == RLP0_update_state(Kernel, kw, now + 1)
        IN  /\ r.exc = "ValueError"
            /\ r.calls = <<>>
            /\ r.k = Kernel

\* update_state raised ValueError on a kernel with the gate closed and a
\* signal in its history
C8_Witness ==
    /\ result.op = "update_state" /\ result.exc = "ValueError"
    /\ Gate_is_closed(_gate)
    /\ Len(_signal_bus._history) > 0

---------------------------------------------------------------------------
(* Properties of RelationalState, under SpecState *)

\* C7: the constructor and update succeed exactly when every resulting
\* primitive lies in [0.0, 1.0], the bounds 0.0 and 1.0 accepted; a failure
\* is a ValueError and gives no instance.  result.ret holds the arguments.
C7_ValidationRange ==
    /\ result.exc \in {"", "ValueError"}
    /\ result.op = "RelationalState" =>
           /\ result.exc = "" <=> \A j \in 1 .. 4 : InRange(result.ret[j])
           /\ result.exc = "" <=> caller.s1 # NoRef
    /\ result.op = "update" =>
           LET kw == result.ret[1]
               s == heap[caller.s1]
           IN  /\ result.exc = "" <=>
                      \A p \in Primitives :
                          InRange(IF p \in DOMAIN kw THEN kw[p] ELSE s[p])
               /\ result.exc = "" <=> caller.s2 # NoRef

\* an update given both bounds, 0.0 and 1.0, succeeded
C7_Witness ==
    /\ result.op = "update" /\ result.exc = ""
    /\ \E p, q \in DOMAIN result.ret[1] :
           result.ret[1][p] = 0 /\ result.ret[1][q] = One

\* C9: update leaves the instance it is called on as it was; on success it
\* returns another instance with the primitives given set to the values
\* given, the other primitives kept, and rupture_risk and is_gated carried
\* over from the original.
C9_UpdateReturnsNewInstance ==
    [][result'.op = "update" =>
         /\ heap'[caller'.s1] = heap[caller.s1]
         /\ result'.exc # "" => caller'.s2 = NoRef
         /\ result'.exc = "" =>
                LET old == heap[caller.s1]
                    new == heap'[caller'.s2]
                    kw == result'.ret[1]
                IN  /\ caller'.s2 # NoRef /\ caller'.s2 # caller'.s1
                    /\ \A p \in Primitives :
                           new[p] = IF p \in DOMAIN kw THEN kw[p] ELSE old[p]
                    /\ new.rupture_risk = old.rupture_risk
                    /\ new.is_gated = old.is_gated
      ]_vars

\* an update changed trust and the new instance carries the original's
\* rupture_risk above 1.0 and its is_gated
C9_Witness ==
    /\ result.op = "update" /\ result.exc = ""
    /\ heap[caller.s2].trust # heap[caller.s1].trust
    /\ heap[caller.s2].rupture_risk = RiskOne + 1
    /\ heap[caller.s2].is_gated

---------------------------------------------------------------------------
(* SpecAlias: the kernel and a caller that keeps references to states.  The *)
(* caller keeps the instance it passed as the initial state, or takes the   *)
(* one the state accessor returns, and assigns to an attribute of it.       *)

\* RLP0(rupture_threshold, state) with the caller keeping state or not
InitAlias ==
    /\ \E th \in Thresholds : \E s \in InitialStates :
           /\ heap = RLP0(th, s.fields).heap
           /\ _state = RLP0(th, s.fields)._state
           /\ _gate = RLP0(th, s.fields)._gate
           /\ _signal_bus = RLP0(th, s.fields)._signal_bus
           /\ _rupture_threshold = RLP0(th, s.fields)._rupture_threshold
    /\ \E keeps \in BOOLEAN :
           caller = [s1 |-> IF keeps THEN _state ELSE NoRef, s2 |-> NoRef]
    /\ result = Outcome("RLP0", Returns(<<>>))
    /\ now = 0

\* the state accessor: the reference self._state, which the caller keeps
\* as s1
RLP0_state(k) == k._state

GetState ==
    Becomes(Kernel, [caller EXCEPT !.s1 = RLP0_state(Kernel)],
            Outcome("state", Returns(<<>>)))

\* s1.trust = v in the calling code, v being 0.0 or a value above 1.0: a
\* dataclass attribute is assigned with no validation
CallerSets ==
    /\ caller.s1 # NoRef
    /\ \E v \in {0, One + 1} :
           Becomes([Kernel EXCEPT !.heap[caller.s1].trust = v], caller,
                   Outcome("caller_sets", Returns(<<>>)))

NextAlias ==
    \/ UpdateState
    \/ ComputeRuptureRisk
    \/ AcknowledgeRepair
    \/ GetState
    \/ CallerSets

SpecAlias == InitAlias /\ [][NextAlias]_vars

\* C11: a state the caller holds, taken from the state accessor or passed
\* as the initial state, is a snapshot: compute_rupture_risk, update_state
\* and acknowledge_repair change no field of it, and an assignment the
\* caller makes to it does not reach the kernel's state.
C11_StateIsSnapshot ==
    [][caller.s1 # NoRef =>
         /\ result'.op \in {"compute_rupture_risk", "update_state",
                            "acknowledge_repair"} =>
                heap'[caller'.s1] = heap[caller.s1]
         /\ result'.op = "caller_sets" => heap'[_state'] = heap[_state]
      ]_vars

---------------------------------------------------------------------------
(* Properties of the calls as wholes and of emission, under Spec *)

\* every effect of a call that computes the risk is in place: the risk of
\* the current primitives is written, and a signal recorded by the call
\* comes with the gate closed by the call, its 'closed' event and the flag
AllEffects ==
    /\ heap'[_state'].rupture_risk = RiskOf(heap'[_state'])
    /\ Len(_signal_bus'._history) > Len(_signal_bus._history) =>
           /\ Gate_is_open(_gate) /\ Gate_is_closed(_gate')
           /\ ExtendsByOne(_gate'.history, _gate.history)
           /\ Last(_gate'.history).action = "closed"
           /\ heap'[_state'].is_gated

\* C12: when update_state or compute_rupture_risk returns or raises, either
\* no effect of the call is in place or all are; no call leaves a signal in
\* the signal history without the gate closed for it.
C12_CallsAreAtomic ==
    [][result'.op \in {"update_state", "compute_rupture_risk"} =>
         \/ UNCHANGED <<heap, _state, _gate, _signal_bus>>
         \/ AllEffects
      ]_vars

\* the call of this step emitted a signal
Emits ==
    /\ result'.op \in {"update_state", "compute_rupture_risk"}
    /\ Len(_signal_bus'._history) > Len(_signal_bus._history)

\* the subscriptions whose callback raises
Raisers(subs) == {j \in 1 .. Len(subs) : Raises(subs[j])}

\* C13: when a callback raises during emit, the exception comes out of the
\* update_state or compute_rupture_risk that emitted, no value is returned,
\* and the subscriptions after the first one that raised are not called
\* for that signal; with no callback raising the call returns.
C13_CallbackExceptionPropagates ==
    [][Emits =>
         LET subs == _signal_bus._subscribers
             first == CHOOSE j \in Raisers(subs) : \A m \in Raisers(subs) : j <= m
         IN  IF Raisers(subs) = {}
             THEN result'.exc = ""
             ELSE /\ result'.exc = "CallbackError"
                  /\ result'.ret = <<>>
                  /\ Len(result'.calls) = first
                  /\ \A j \in 1 .. first : result'.calls[j].callback = subs[j]
      ]_vars

\* a call ended with the exception of the first of two subscriptions, and
\* the second, which does not raise, was not called
C13_Witness ==
    /\ result.op \in {"update_state", "compute_rupture_risk"}
    /\ result.exc = "CallbackError"
    /\ _signal_bus._subscribers = <<"bad", "h1">>
    /\ Len(result.calls) = 1
    /\ result.calls[1].callback = "bad"

\* C14: emit appends the signal to the history before it calls a
\* subscriber, so each callback finds the signal in the history; it calls
\* the subscriptions in subscription order with that signal, each once, a
\* callback subscribed twice being called twice.
C14_EmitAppendsThenNotifiesInOrder ==
    [][Emits =>
         LET subs == _signal_bus._subscribers
         IN  /\ ExtendsByOne(_signal_bus'._history, _signal_bus._history)
             /\ Len(result'.calls) <= Len(subs)
             /\ Raisers(subs) = {} => Len(result'.calls) = Len(subs)
             /\ \A j \in 1 .. Len(result'.calls) :
                    /\ result'.calls[j].callback = subs[j]
                    /\ result'.calls[j].signal = Last(_signal_bus'._history)
                    /\ result'.calls[j].history_len = Len(_signal_bus._history) + 1
      ]_vars

\* a callback subscribed twice was called twice with the signal, which was
\* in the history both times
C14_Witness ==
    /\ result.op \in {"update_state", "compute_rupture_risk"}
    /\ _signal_bus._subscribers = <<"h1", "h1">>
    /\ Len(result.calls) = 2
    /\ \A j \in 1 .. 2 :
           /\ result.calls[j].callback = "h1"
           /\ result.calls[j].signal = Last(_signal_bus._history)
           /\ result.calls[j].history_len = Len(_signal_bus._history)

\* C15: in every reachable state of a kernel, whatever accepted initial
\* state it was constructed with, state.rupture_risk lies in [0.0, 1.0].
C15_RiskInRange ==
    0 <= heap[_state].rupture_risk /\ heap[_state].rupture_risk <= RiskOne

---------------------------------------------------------------------------
(* SpecDefault: the kernel constructed with no state given, RLP0() or      *)
(* RLP0(rupture_threshold), then driven as in Spec.                         *)

\* a RelationalState() whose primitives default to 0.0
DefaultState_zero(t) == RelationalState(0, 0, 0, 0, 0, FALSE, t)

\* RelationalState(): every field at the default of the dataclass
DefaultState(t) == RelationalState(One, One, One, One, 0, FALSE, t)

\* state is None: self._state = state or RelationalState()
InitDefault ==
    /\ \E th \in Thresholds :
           /\ heap = RLP0(th, DefaultState(0).fields).heap
           /\ _state = RLP0(th, DefaultState(0).fields)._state
           /\ _gate = RLP0(th, DefaultState(0).fields)._gate
           /\ _signal_bus = RLP0(th, DefaultState(0).fields)._signal_bus
           /\ _rupture_threshold = RLP0(th, DefaultState(0).fields)._rupture_threshold
    /\ caller = [s1 |-> NoRef, s2 |-> NoRef]
    /\ result = Outcome("RLP0", Returns(<<>>))
    /\ now = 0

SpecDefault == InitDefault /\ [][Next]_vars

\* C16: a kernel constructed with no state given starts with the four
\* primitives at 1.0, rupture_risk 0.0, is_gated false, the gate open
\* (check_gate true), and the gate history and the signal history empty.
C16_DefaultKernel ==
    result.op = "RLP0" =>
        /\ \A p \in Primitives : heap[_state][p] = One
        /\ heap[_state].rupture_risk = 0
        /\ ~ heap[_state].is_gated
        /\ ~ RLP0_is_gated(Kernel)
        /\ RLP0_check_gate(Kernel)
        /\ RLP0_status(Kernel).gate_history.items = <<>>
        /\ SignalBus_history(_signal_bus) = <<>>
        /\ RLP0_status(Kernel).signal_count = 0

\* the kernel as constructed, before any call
C16_Witness ==
    /\ result.op = "RLP0"
    /\ heap[_state].last_updated = now
    /\ _signal_bus._subscribers = <<>>
    /\ DOMAIN heap = {_state}

---------------------------------------------------------------------------
(* SpecCopies: the kernel and a caller that keeps the list it got from     *)
(* signal_history or from status()['gate_history'] and changes that list.  *)

\* the caller holds no list
NoList == [of |-> "none", items |-> <<>>, shared |-> FALSE]

InitCopies ==
    /\ \E th \in Thresholds : \E s \in InitialStates :
           /\ heap = RLP0(th, s.fields).heap
           /\ _state = RLP0(th, s.fields)._state
           /\ _gate = RLP0(th, s.fields)._gate
           /\ _signal_bus = RLP0(th, s.fields)._signal_bus
           /\ _rupture_threshold = RLP0(th, s.fields)._rupture_threshold
    /\ caller = [s1 |-> NoRef, s2 |-> NoRef, held |-> NoList]
    /\ result = Outcome("RLP0", Returns(<<>>))
    /\ now = 0

\* held = rlp.signal_history
TakeSignalHistory ==
    LET l == RLP0_signal_history(Kernel)
    IN  Becomes(Kernel,
                [caller EXCEPT !.held = [of |-> "signal_history",
                                         items |-> l.items, shared |-> l.shared]],
                Outcome("signal_history", Returns(<<l>>)))

\* held = rlp.status()['gate_history']
TakeGateHistory ==
    LET st == RLP0_status(Kernel)
    IN  Becomes(Kernel,
                [caller EXCEPT !.held = [of |-> "gate_history",
                                         items |-> st.gate_history.items,
                                         shared |-> st.gate_history.shared]],
                Outcome("status", Returns(<<st>>)))

\* an entry of the caller's own
CallerEntry == [caller_entry |-> TRUE]

\* list.clear, list.pop, list.append and assignment to the first entry
ListChanges == {"clear", "pop", "append", "replace"}

Changed(items, m) ==
    CASE m = "clear" -> <<>>
      [] m = "pop" -> IF items = <<>> THEN items
                      ELSE SubSeq(items, 1, Len(items) - 1)
      [] m = "append" -> Append(items, CallerEntry)
      [] m = "replace" -> IF items = <<>> THEN items
                          ELSE [items EXCEPT ![1] = CallerEntry]

\* the caller changes the list it holds; a list object the kernel shares
\* changes for the kernel as well
CallerChangesList ==
    /\ caller.held.of # "none"
    /\ \E m \in ListChanges :
           LET items == Changed(caller.held.items, m)
               k == IF ~ caller.held.shared THEN Kernel
                    ELSE IF caller.held.of = "signal_history"
                    THEN [Kernel EXCEPT !._signal_bus._history = items]
                    ELSE [Kernel EXCEPT !._gate.history = items]
           IN  /\ Len(items) <= MaxGateEvents
               /\ Becomes(k, [caller EXCEPT !.held.items = items],
                          Outcome("caller_changes_list", Returns(<<>>)))

NextCopies ==
    \/ UpdateState
    \/ AcknowledgeRepair
    \/ TakeSignalHistory
    \/ TakeGateHistory
    \/ CallerChangesList

SpecCopies == InitCopies /\ [][NextCopies]_vars

\* C17: the lists that signal_history and status()['gate_history'] return
\* are copies: adding, removing or replacing entries of a returned list
\* changes neither the kernel's signal history nor its gate history, and
\* signal_history and status() return the kernel's record as it is.
C17_ReturnedListsAreCopies ==
    [][/\ result'.op = "caller_changes_list" =>
              /\ _signal_bus' = _signal_bus
              /\ _gate' = _gate
       /\ result'.op = "signal_history" =>
              /\ result'.ret[1].items = _signal_bus._history
              /\ UNCHANGED <<_signal_bus, _gate>>
       /\ result'.op = "status" =>
              /\ result'.ret[1].signal_count = Len(_signal_bus._history)
              /\ Len(result'.ret[1].gate_history.items) = Len(_gate.history)
              /\ \A j \in 1 .. Len(_gate.history) :
                     LET d == result'.ret[1].gate_history.items[j]
                         e == _gate.history[j]
                     IN  /\ d.action = e.action
                         /\ d.reason = e.reason
                         /\ d.rupture_risk = e.rupture_risk_at_event
              /\ UNCHANGED <<_signal_bus, _gate>>
      ]_vars

\* the caller appended an entry of its own to the list signal_history had
\* returned with one signal, and the kernel's history still has that one
C17_Witness ==
    /\ result.op = "caller_changes_list"
    /\ caller.held.of = "signal_history"
    /\ Len(caller.held.items) = 2
    /\ Len(_signal_bus._history) = 1
    /\ caller.held.items[1] = _signal_bus._history[1]
    /\ caller.held.items[2] = CallerEntry

---------------------------------------------------------------------------
(* SpecGate: a Gate on its own, closed and released by its caller at any   *)
(* time, in any order.  result.ret keeps the arguments of the call.         *)

\* the reasons and the risks the caller gives
Reasons == {<<"first">>, <<"second">>}
GateRisks == {0, RiskOne}

\* gate = Gate()
InitGate ==
    /\ heap = <<>>
    /\ _state = NoRef
    /\ _gate = Gate
    /\ _signal_bus = SignalBus
    /\ _rupture_threshold = 0
    /\ caller = [s1 |-> NoRef, s2 |-> NoRef]
    /\ result = [op |-> "Gate", exc |-> "", ret |-> <<>>, calls |-> <<>>]
    /\ now = 0

\* gate.close(reason, rupture_risk)
GateClose ==
    /\ \E reason \in Reasons, rupture_risk \in GateRisks :
           /\ _gate' = Gate_close(_gate, reason, rupture_risk, now)
           /\ result' = [op |-> "close", exc |-> "",
                         ret |-> <<reason, rupture_risk>>, calls |-> <<>>]
    /\ Len(_gate'.history) <= MaxGateEvents
    /\ UNCHANGED <<heap, _state, _signal_bus, _rupture_threshold, caller, now>>

\* gate.release(rupture_risk)
GateRelease ==
    /\ \E rupture_risk \in GateRisks :
           /\ _gate' = Gate_release(_gate, rupture_risk, now)
           /\ result' = [op |-> "release", exc |-> "",
                         ret |-> <<rupture_risk>>, calls |-> <<>>]
    /\ Len(_gate'.history) <= MaxGateEvents
    /\ UNCHANGED <<heap, _state, _signal_bus, _rupture_threshold, caller, now>>

NextGate ==
    \/ GateClose
    \/ GateRelease
    \/ Tick

SpecGate == InitGate /\ [][NextGate]_vars

\* C18: close on a closed gate and release on an open gate change nothing:
\* state, closed_at, reason and history stay, so a second close keeps the
\* reason and closed_at of the first and appends no event; close twice is
\* close once and release twice is release once.  The second call is made
\* at a later time and with other arguments than the first.
C18_GateNoOps ==
    \A r1 \in Reasons, r2 \in Reasons, q1 \in GateRisks, q2 \in GateRisks :
        /\ Gate_is_closed(_gate) => Gate_close(_gate, r1, q1, now + 1) = _gate
        /\ Gate_is_open(_gate) => Gate_release(_gate, q1, now + 1) = _gate
        /\ Gate_close(Gate_close(_gate, r1, q1, now), r2, q2, now + 1)
               = Gate_close(_gate, r1, q1, now)
        /\ Gate_release(Gate_release(_gate, q1, now), q2, now + 1)
               = Gate_release(_gate, q1, now)

\* close was called on a closed gate, later and with another reason than
\* the close that closed it, and the gate has the first reason and time
C18_Witness ==
    /\ result.op = "close"
    /\ Gate_is_closed(_gate)
    /\ result.ret[1] # _gate.reason
    /\ _gate.closed_at # <<now>>
    /\ Last(_gate.history).reason = _gate.reason

---------------------------------------------------------------------------
(* Properties of the histories and of the is_gated flag, under Spec *)

\* old is a prefix of s
IsPrefix(old, s) == Len(old) <= Len(s) /\ SubSeq(s, 1, Len(old)) = old

\* C19: the signal history and the gate history are append-only: over
\* every call on the kernel the history before the call is a prefix of
\* the history after it.
C19_HistoriesAppendOnly ==
    [][/\ IsPrefix(_signal_bus._history, _signal_bus'._history)
       /\ IsPrefix(_gate.history, _gate'.history)
       /\ IsPrefix(SignalBus_history(_signal_bus), SignalBus_history(_signal_bus'))
       /\ IsPrefix(RLP0_status(Kernel).gate_history.items,
                   RLP0_status(Kernel').gate_history.items)
      ]_vars

\* two signals and three gate events have been appended
C19_Witness ==
    /\ Len(_signal_bus._history) = 2
    /\ Len(_gate.history) = 3
    /\ result.op \in {"update_state", "compute_rupture_risk"}

\* C20: after every call on a kernel, whatever accepted initial state it
\* was constructed with, the is_gated flag of the state says what the gate
\* says: status()['is_gated'] = status()['state']['is_gated'] =
\* not check_gate().
C20_FlagMatchesGate ==
    result.op # "RLP0" =>
        /\ RLP0_status(Kernel).is_gated = RLP0_status(Kernel).state.is_gated
        /\ RLP0_status(Kernel).is_gated = (~ RLP0_check_gate(Kernel))

\* the 'closed' events of a gate history, in order
ClosedEvents(h) == SelectSeq(h, LAMBDA e : e.action = "closed")

\* C21: in every reachable state the signal history has as many signals
\* (status()['signal_count']) as the gate history has 'closed' events, and
\* the i-th signal carries the risk recorded by the i-th 'closed' event,
\* which is at or above the threshold.
C21_SignalPerClosure ==
    LET closed == ClosedEvents(_gate.history)
        signals == SignalBus_history(_signal_bus)
    IN  /\ RLP0_status(Kernel).signal_count = Len(closed)
        /\ Len(signals) = Len(closed)
        /\ \A j \in 1 .. Len(closed) :
               /\ signals[j].rupture_risk = closed[j].rupture_risk_at_event
               /\ closed[j].rupture_risk_at_event >= _rupture_threshold

\* the gate is open after a release
Released ==
    /\ Gate_is_open(_gate)
    /\ _gate.history # <<>>
    /\ Last(_gate.history).action = "released"

\* the call of this step is a compute_rupture_risk, or an update_state
\* that succeeded, and the risk it wrote is at or above the threshold
RupturesAgain ==
    /\ \/ result'.op = "compute_rupture_risk"
       \/ result'.op = "update_state" /\ result'.exc = ""
    /\ heap'[_state'].rupture_risk >= _rupture_threshold

\* C22: acknowledge_repair emits no signal, calls no subscriber and
\* appends no 'closed' event; and after a release, the risk at or above
\* the threshold or not, the next compute_rupture_risk or successful
\* update_state with a risk at or above the threshold emits a new
\* RUPTURE_DETECTED signal and closes the gate again.
C22_RepairDoesNotLoseRupture ==
    [][/\ result'.op = "acknowledge_repair" =>
              /\ _signal_bus' = _signal_bus
              /\ result'.calls = <<>>
              /\ ClosedEvents(_gate'.history) = ClosedEvents(_gate.history)
       /\ (Released /\ RupturesAgain) =>
              /\ ExtendsByOne(_signal_bus'._history, _signal_bus._history)
              /\ Last(_signal_bus'._history).signal_type = "RUPTURE_DETECTED"
              /\ Gate_is_closed(_gate')
              /\ ExtendsByOne(_gate'.history, _gate.history)
              /\ Last(_gate'.history).action = "closed"
      ]_vars

---------------------------------------------------------------------------
(* SpecReentrant: the kernel with a subscriber that calls back into it.    *)
(* The callback "reenter" keeps a count of the calls it may still make and *)
(* calls compute_rupture_risk on the kernel while that count is positive;  *)
(* the count is the caller's, in caller.budget.  An operation here gives   *)
(* the count left, b, besides the kernel, the exception, the value and the *)
(* callbacks called, the nested calls in the order they were made.         *)

\* the most a callback re-enters the kernel
MaxReentries == 1

ReentrantCallbacks == {"h1", "reenter"}

RECURSIVE Reentrant_compute_rupture_risk(_, _, _)
RECURSIVE Reentrant_notify(_, _, _, _, _)

\* the call of one subscriber with the signal
Reentrant_callback(k, b, cb, t) ==
    IF cb = "reenter" /\ b > 0
    THEN LET c == Reentrant_compute_rupture_risk(k, b - 1, t)
         IN  [k |-> c.k, b |-> c.b, exc |-> c.exc, calls |-> c.calls]
    ELSE [k |-> k, b |-> b,
          exc |-> IF Raises(cb) THEN "CallbackError" ELSE "",
          calls |-> <<>>]

\* the loop of emit over the subscribers subs still to call
Reentrant_notify(k, b, signal, subs, t) ==
    IF subs = <<>>
    THEN [k |-> k, b |-> b, exc |-> "", calls |-> <<>>]
    ELSE LET entry == [callback |-> Head(subs), signal |-> signal,
                       history_len |-> Len(k._signal_bus._history)]
             c == Reentrant_callback(k, b, Head(subs), t)
             rest == Reentrant_notify(c.k, c.b, signal, Tail(subs), t)
         IN  IF c.exc # ""
             THEN [c EXCEPT !.calls = <<entry>> \o @]
             ELSE [rest EXCEPT !.calls = <<entry>> \o c.calls \o @]

\* compute_rupture_risk with the callbacks running inside it: the risk is
\* written, the signal is appended, the subscribers are called, and after
\* they have returned the gate is closed and the flag of the state set
Reentrant_compute_rupture_risk(k, b, t) ==
    LET risk == RuptureRisk(k.heap[k._state])
        k1 == WriteRisk(k, risk, t)
        signal == Signal("RUPTURE_DETECTED", t, risk,
                         <<"exceeded", Fmt2(risk), k._rupture_threshold>>)
        k2 == [k1 EXCEPT !._signal_bus._history = Append(@, signal)]
        n == Reentrant_notify(k2, b, signal, k2._signal_bus._subscribers, t)
        g == Gate_close(n.k._gate,
                        <<"rupture_risk", Fmt2(risk), k._rupture_threshold>>,
                        risk, t)
    IN  IF ~ ShouldRupture(k, risk)
        THEN [k |-> k1, b |-> b, exc |-> "", ret |-> <<risk>>, calls |-> <<>>]
        ELSE IF n.exc # ""
        THEN [k |-> n.k, b |-> n.b, exc |-> n.exc, ret |-> <<>>,
              calls |-> n.calls]
        ELSE [k |-> [n.k EXCEPT !._gate = g,
                                !.heap[n.k._state].is_gated = TRUE],
              b |-> n.b, exc |-> "", ret |-> <<risk>>, calls |-> n.calls]

Reentrant_update_state(k, b, kwargs, t) ==
    LET u == RelationalState_update(k.heap, k._state, kwargs, t)
        k1 == IF DOMAIN kwargs # {}
              THEN [k EXCEPT !.heap = u.heap, !._state = u.ret]
              ELSE k
        c == Reentrant_compute_rupture_risk(k1, b, t)
    IN  IF DOMAIN kwargs # {} /\ u.exc # ""
        THEN [k |-> [k EXCEPT !.heap = u.heap], b |-> b,
              exc |-> u.exc, ret |-> <<>>, calls |-> <<>>]
        ELSE [c EXCEPT !.ret = <<>>]

InitReentrant ==
    /\ \E th \in Thresholds : \E s \in InitialStates :
           /\ heap = RLP0(th, s.fields).heap
           /\ _state = RLP0(th, s.fields)._state
           /\ _gate = RLP0(th, s.fields)._gate
           /\ _signal_bus = RLP0(th, s.fields)._signal_bus
           /\ _rupture_threshold = RLP0(th, s.fields)._rupture_threshold
    /\ \E b \in 0 .. MaxReentries :
           caller = [s1 |-> NoRef, s2 |-> NoRef, budget |-> b]
    /\ result = Outcome("RLP0", Returns(<<>>))
    /\ now = 0

ReentrantUpdateState ==
    \E S \in ParameterSets : \E v \in InputVals :
        LET r == Reentrant_update_state(Kernel, caller.budget,
                                        [p \in S |-> v], now)
        IN  Becomes(r.k, [caller EXCEPT !.budget = r.b],
                    Outcome("update_state", r))

ReentrantComputeRuptureRisk ==
    LET r == Reentrant_compute_rupture_risk(Kernel, caller.budget, now)
    IN  Becomes(r.k, [caller EXCEPT !.budget = r.b],
                Outcome("compute_rupture_risk", r))

ReentrantSubscribe ==
    \E cb \in ReentrantCallbacks :
        Becomes([Kernel EXCEPT !._signal_bus = SignalBus_subscribe(@, cb)],
                caller, Outcome("subscribe", Returns(<<>>)))

ReentrantUnsubscribe ==
    \E cb \in ReentrantCallbacks :
        Becomes([Kernel EXCEPT !._signal_bus = SignalBus_unsubscribe(@, cb)],
                caller, Outcome("unsubscribe", Returns(<<>>)))

NextReentrant ==
    \/ ReentrantUpdateState
    \/ ReentrantComputeRuptureRisk
    \/ AcknowledgeRepair
    \/ CheckGate
    \/ Status
    \/ ReentrantSubscribe
    \/ ReentrantUnsubscribe

SpecReentrant == InitReentrant /\ [][NextReentrant]_vars

\* the signals and the 'closed' events that the call of this step added
SignalsAdded == Len(_signal_bus'._history) - Len(_signal_bus._history)

ClosuresAdded ==
    Len(ClosedEvents(_gate'.history)) - Len(ClosedEvents(_gate.history))

\* C23: with a subscriber that calls compute_rupture_risk on the kernel
\* from inside its callback, a compute_rupture_risk or an update_state
\* returns, and it records at most one signal, and one signal for each
\* 'closed' event it appends: no second RUPTURE_DETECTED signal is emitted
\* for the same rupture before the gate is closed.
C23_ReentryEmitsOnce ==
    [][result'.op \in {"compute_rupture_risk", "update_state"} =>
           /\ result'.exc \in {"", "ValueError"}
           /\ SignalsAdded <= 1
           /\ SignalsAdded = ClosuresAdded
      ]_vars

===========================================================================
